---- MODULE Spec2Model ----
(***************************************************************************)
(* Model of pose_regression/train.py: main's data routing and stateful     *)
(* setup, create_callbacks, and the random hyperparameter search driver    *)
(* hyperparam_search together with the training loop and the observers it  *)
(* wires up.                                                               *)
(*                                                                         *)
(* Losses are integers in units of 1e-5.  Strings that the program tests   *)
(* with Python's `in` are looked up as character sequences (Chars).        *)
(***************************************************************************)
EXTENDS Integers, Sequences, FiniteSets, TLC

VARIABLES
  pc,          \* position of the program
  args,        \* parsed command line (argparse namespace)
  call,        \* the arguments hyperparam_search was called with
  iter,        \* number of loop iterations begun (for _ in xrange(iters))
  run,         \* per-iteration locals: hyperparams, hyperparam_desc, callbacks, model
  fit,         \* state of the running model.fit call
  obs,         \* state owned by the observers of the running fit
  disk,        \* on-disk layout under output_dir
  hist         \* history of the execution (what has been started, written, raised)

vars == <<pc, args, call, iter, run, fit, obs, disk, hist>>

(***************************** bounds **************************************)
MaxIters == 2
\* total number of batches a whole search may process: iters * epochs * batches
MaxWork == 11
MaxPeriod == 3
MaxValSamples == 1
LabelDim == 2

(************************ strings and formatting ***************************)
Chars(s) ==
  CASE s = "stateful"       -> <<"s","t","a","t","e","f","u","l">>
    [] s = "homoscedastic"  -> <<"h","o","m","o","s","c","e","d","a","s","t","i","c">>
    [] s = "regressor"      -> <<"r","e","g","r","e","s","s","o","r">>
    [] s = "standard-lstm"  -> <<"s","t","a","n","d","a","r","d","-","l","s","t","m">>
    [] s = "stateful-lstm"  -> <<"s","t","a","t","e","f","u","l","-","l","s","t","m">>
    [] s = "naive-weighted" -> <<"n","a","i","v","e","-","w","e","i","g","h","t","e","d">>
    [] s = "naive-homoscedastic" ->
         <<"n","a","i","v","e","-","h","o","m","o","s","c","e","d","a","s","t","i","c">>

\* Python: sub in s
StrIn(sub, s) ==
  LET a == Chars(sub)
      b == Chars(s)
  IN  \E i \in 0..(Len(b) - Len(a)) : SubSeq(b, i + 1, i + Len(a)) = a

RECURSIVE Digits(_)
Digits(n) == IF n < 10 THEN <<n>> ELSE Append(Digits(n \div 10), n % 10)

RECURSIVE ZeroPad(_, _)
ZeroPad(ds, width) == IF Len(ds) >= width THEN ds ELSE ZeroPad(<<0>> \o ds, width)

\* '{:04d}'.format(n)
Fmt04d(n) == ZeroPad(Digits(n), 4)

\* '{:.4f}'.format(v) for v in units of 1e-5: the number of 1e-4 units printed,
\* rounded half to even
Fmt4f(v) ==
  LET q == v \div 10
      r == v % 10
  IN  IF r < 5 THEN q
      ELSE IF r > 5 THEN q + 1
      ELSE IF q % 2 = 0 THEN q ELSE q + 1

\* str.format(**kw) of a template given as a sequence of literal and field pieces
FormatPiece(p, kw) ==
  CASE p.field = ""   -> p.lit
    [] p.spec = "04d" -> Fmt04d(kw[p.field])
    [] p.spec = ".4f" -> Fmt4f(kw[p.field])
    [] OTHER          -> kw[p.field]

Format(tmpl, kw) == [i \in DOMAIN tmpl |-> FormatPiece(tmpl[i], kw)]

Lit(s) == [lit |-> s, field |-> "", spec |-> ""]
Field(k) == [lit |-> "", field |-> k, spec |-> ""]
FieldAs(k, spec) == [lit |-> "", field |-> k, spec |-> spec]

FieldsOf(tmpl) == {tmpl[i].field : i \in DOMAIN tmpl} \ {""}

(****************************** arrays *************************************)
\* a feature array of n samples
Features(n) == [shape |-> <<n, 1>>, data |-> [i \in 1..n |-> <<i>>]]

\* a label array of shape (n, d)
Labels(n, d) == [shape |-> <<n, d>>, data |-> [i \in 1..n |-> [j \in 1..d |-> i + j]]]

\* np.zeros((n,))
np_zeros(n) == [shape |-> <<n>>, data |-> [i \in 1..n |-> 0]]

NoArray == [shape |-> <<>>, data |-> <<>>]

(******************** hyperparameter configuration *************************)
\* what each generator of a hyperparameter space can return
GenRange(var) ==
  CASE var = "lr_modifier" -> {"constant", "step_decay"}
    [] var = "dropout"     -> {"0.5"}

\* a config module: .space (its keys; the generators are GenRange) and .desc
Config(space, desc) == [isNone |-> FALSE, space |-> space, desc |-> desc]

None == [isNone |-> TRUE, space |-> {}, desc |-> <<>>]

Configs ==
  { Config({"lr_modifier"}, <<Lit("run")>>),
    Config({"lr_modifier"}, <<Lit("mod="), Field("lr_modifier")>>),
    Config({"dropout"}, <<Lit("run")>>),
    Config({"dropout"}, <<Lit("mod="), Field("lr_modifier")>>),
    Config({"lr_modifier", "dropout"}, <<Lit("mod="), Field("lr_modifier")>>) }

\* Python truthiness of the config argument and of the output_dir string
Truthy(config) == ~config.isNone

\* the keyword arguments the model factory takes
FactoryKeys == {"lr_modifier"}

\* model_class(**hyperparams).build() succeeds
FactoryAccepts(hyperparams) == DOMAIN hyperparams = FactoryKeys

\* lr_modifier(**hyperparams): a learning-rate schedule observer, or None
lr_modifier(hyperparams) ==
  IF hyperparams["lr_modifier"] = "step_decay" THEN "LearningRateScheduler" ELSE "None"

(***************************** inputs **************************************)
TopModelTypes == {"regressor", "stateful-lstm"}
LossNames == {"naive-weighted", "naive-homoscedastic"}
\* (seq_len, subseq_len) of a stateful top model
SeqPairs == {<<100, 20>>, <<4, 2>>, <<2, 4>>}
NoSeq == <<0, 0>>
BatchSizes == {1}
EpochChoices == {1, 2, 5, 10, MaxWork}
SampleChoices == {1, 3, 5, 10}
\* validation losses an epoch can end with, in units of 1e-5; the two print alike
\* under {val_loss:.4f}, so checkpoint names of one run differ by the epoch alone
Losses == {12, 14}

Max(S) == CHOOSE x \in S : \A y \in S : y <= x

\* np.Inf
Inf == Max(Losses) + 1

\* number of batches of one epoch over n samples
NumBatches(n, batch_size) == (n + batch_size - 1) \div batch_size

ArgSpace ==
  [ top_model_type : TopModelTypes, loss : LossNames, seq : SeqPairs \cup {NoSeq},
    hyperparam_config : Configs, output_dir : {"", "out"},
    iters : 1..MaxIters, epochs : EpochChoices, save_period : 1..MaxPeriod,
    batch_size : BatchSizes, trainN : SampleChoices, valN : 1..MaxValSamples ]

ArgOk(a) ==
  /\ (a.seq = NoSeq) <=> ~StrIn("stateful", a.top_model_type)
  /\ a.iters * a.epochs * NumBatches(a.trainN, a.batch_size) <= MaxWork

NoCall ==
  [ X_train |-> NoArray, y_train |-> NoArray, X_val |-> NoArray, y_val |-> NoArray,
    config |-> None, output_dir |-> "", iters |-> 0, epochs |-> 0, save_period |-> 0,
    batch_size |-> 0, stateful |-> FALSE, stateful_reset_interval |-> 0 ]

NoRun == [ hyperparams |-> <<>>, hyperparam_desc |-> <<>>, callbacks |-> <<>>, model |-> FALSE ]

NoFit == [ running |-> FALSE, epoch |-> 0, inEpoch |-> FALSE, batch |-> 0,
           stop_training |-> FALSE, shuffle |-> FALSE ]

NoObs == [ wait |-> 0, best |-> Inf, epochs_since_last_save |-> 0,
           counter |-> 0, resets |-> <<>> ]

NoHist ==
  [ drawn |-> 0, built |-> 0, started |-> 0, active |-> {}, raised |-> "",
    event |-> <<>>, written |-> <<>>, stoppedAt |-> 0, sinceImproved |-> 0,
    lowest |-> Inf, ids |-> <<>> ]

Init ==
  /\ pc = "start"
  /\ args \in {a \in ArgSpace : ArgOk(a)}
  /\ call = NoCall
  /\ iter = 0
  /\ run = NoRun
  /\ fit = NoFit
  /\ obs = NoObs
  /\ disk = [dirs |-> {}, files |-> {}, log |-> <<>>]
  /\ hist = NoHist

(******************************* main **************************************)
\* the arrays main loads for its --train-* and --val-* arguments
train_features == Features(args.trainN)
train_labels == Labels(args.trainN, LabelDim)
val_features == Features(args.valN)
val_labels == Labels(args.valN, LabelDim)

\* variant: the label target is left as it is
RouteLabels_kept(loss, labels) == labels

\* lines 224-235: rerouting for losses with trainable parameters
RouteFeatures(loss, features, labels) ==
  IF StrIn("homoscedastic", loss)
  THEN [main_input |-> features, labels_input |-> labels]
  ELSE features

RouteLabels(loss, labels) ==
  IF StrIn("homoscedastic", loss) THEN np_zeros(labels.shape[1]) ELSE labels

\* variant: the operands of the division exchanged
ResetInterval_swapped(top_model_type, seq_len, subseq_len) ==
  IF StrIn("stateful", top_model_type) THEN subseq_len \div seq_len ELSE -1

\* lines 237-242
Stateful(top_model_type) == StrIn("stateful", top_model_type)

ResetInterval(top_model_type, seq_len, subseq_len) ==
  IF StrIn("stateful", top_model_type) THEN seq_len \div subseq_len ELSE -1

\* lines 244-254: the call main makes
MainCall ==
  [ X_train |-> RouteFeatures(args.loss, train_features, train_labels),
    y_train |-> RouteLabels(args.loss, train_labels),
    X_val |-> RouteFeatures(args.loss, val_features, val_labels),
    y_val |-> RouteLabels(args.loss, val_labels),
    config |-> args.hyperparam_config,
    output_dir |-> args.output_dir,
    iters |-> args.iters,
    epochs |-> args.epochs,
    save_period |-> args.save_period,
    batch_size |-> args.batch_size,
    stateful |-> Stateful(args.top_model_type),
    stateful_reset_interval |->
      ResetInterval(args.top_model_type, args.seq[1], args.seq[2]) ]

main ==
  /\ pc = "start"
  /\ call' = MainCall
  /\ pc' = "entry"
  /\ UNCHANGED <<args, iter, run, fit, obs, disk, hist>>

\* hyperparam_search called with its default config=None
DirectCall ==
  /\ pc = "start"
  /\ call' = [MainCall EXCEPT !.config = None]
  /\ pc' = "entry"
  /\ UNCHANGED <<args, iter, run, fit, obs, disk, hist>>

(************************* hyperparam_search *******************************)
\* variant: the failure is reported and the loop goes on
RaiseCaught(what) ==
  /\ pc' = "loop"
  /\ hist' = [hist EXCEPT !.raised = what, !.active = {}]

\* an exception leaves hyperparam_search: nothing in it catches one
Raise(what) ==
  /\ pc' = "raised"
  /\ hist' = [hist EXCEPT !.raised = what, !.active = {}]

\* variant: the output directory is not checked
ArgsAccepted_config_only(c) == Truthy(c.config)

\* lines 65-69
ArgsAccepted(c) == Truthy(c.config) /\ c.output_dir # ""

hyperparam_search_check ==
  /\ pc = "entry"
  /\ IF ArgsAccepted(call)
     THEN pc' = "loop" /\ UNCHANGED hist
     ELSE Raise("ValueError")
  /\ UNCHANGED <<args, call, iter, run, fit, obs, disk>>

(**************************** observers ************************************)
\* variant: a patience one epoch short
Patience_short == 7 - 1

\* line 36-37: EarlyStopping(monitor='val_loss', min_delta=0.0, patience=7)
MinDelta == 0
Patience == 7

\* variant: a pattern without the epoch
checkpoint_pattern_no_epoch ==
  <<Lit("weights."), FieldAs("val_loss", ".4f"), Lit(".hdf5")>>

\* line 51
checkpoint_pattern ==
  <<Lit("weights."), FieldAs("epoch", "04d"), Lit("-"), FieldAs("val_loss", ".4f"),
    Lit(".hdf5")>>

\* variant: the checkpoint writer registered first
create_callbacks_reordered ==
  <<"ModelCheckpoint", "ExtendedLogger", "EarlyStopping">>

\* line 59: return [logger, model_checkpoint, early_stopper]
create_callbacks ==
  <<"ExtendedLogger", "ModelCheckpoint", "EarlyStopping">>

\* variant: every run writes straight into the output root
RunDir_root(run_identifier) == <<>>

\* line 39: output_dir = os.path.join(output_dir, run_identifier), as the path
\* below the output root
RunDir(run_identifier) == <<run_identifier>>

\* lines 41-50: the run's directory with its log, and its checkpoints directory
make_dir(d, dir) ==
  [ d EXCEPT !.dirs = @ \cup {dir},
             !.log = [r \in DOMAIN @ \cup {dir} |-> IF r \in DOMAIN @ THEN @[r] ELSE 0] ]

\* lines 86-92: the observers appended after create_callbacks
AppendReset(callbacks, stateful) ==
  IF stateful THEN Append(callbacks, "ResetStatesCallback") ELSE callbacks

AppendLR(callbacks, lr_modifier_callback) ==
  IF lr_modifier_callback # "None" THEN Append(callbacks, lr_modifier_callback)
  ELSE callbacks

\* EarlyStopping: the monitored value improved on the best one
Improved(current, best) == current - MinDelta < best

\* EarlyStopping: the loss has failed to improve for more than `patience`
\* consecutive epochs
PatienceExceeded(wait) == wait > Patience

\* ModelCheckpoint: a checkpoint is due
SaveDue(epochs_since_last_save, period) == epochs_since_last_save >= period

\* ResetStatesCallback: the recurrent state is reset after this batch
ResetDue(counter, interval) == interval > 0 /\ counter % interval = 0

\* on_epoch_end of one observer, on the state st the event threads through the
\* observers; epoch is the zero-based epoch that ended, with validation loss val_loss
on_epoch_end(name, st, epoch, val_loss) ==
  LET seen == [st EXCEPT !.event = Append(@, name)]
  IN  CASE name = "ExtendedLogger" ->
             [seen EXCEPT !.log[RunDir(run.hyperparam_desc)] = @ + 1]
        [] name = "ModelCheckpoint" ->
             IF SaveDue(st.epochs_since_last_save + 1, call.save_period)
             THEN LET file == Format(checkpoint_pattern,
                                     [epoch |-> epoch + 1, val_loss |-> val_loss])
                  IN  [seen EXCEPT !.epochs_since_last_save = 0,
                                   !.files = @ \cup {<<RunDir(run.hyperparam_desc), file>>},
                                   !.written = Append(@, [epoch |-> epoch + 1, file |-> file])]
             ELSE [seen EXCEPT !.epochs_since_last_save = @ + 1]
        [] name = "EarlyStopping" ->
             IF Improved(val_loss, st.best)
             THEN [seen EXCEPT !.best = val_loss, !.wait = 0]
             ELSE IF PatienceExceeded(st.wait + 1)
                  THEN [seen EXCEPT !.wait = @ + 1, !.stop_training = TRUE,
                                    !.stoppedAt = epoch + 1]
                  ELSE [seen EXCEPT !.wait = @ + 1]
        [] OTHER -> seen

\* the training loop invokes the observers in registration order
RECURSIVE RunCallbacks(_, _, _, _)
RunCallbacks(callbacks, st, epoch, val_loss) ==
  IF callbacks = <<>> THEN st
  ELSE RunCallbacks(Tail(callbacks), on_epoch_end(Head(callbacks), st, epoch, val_loss),
                    epoch, val_loss)

(********************* hyperparam_search: one iteration *********************)
\* line 74: one value per generator of the space
Draws(space) ==
  { h \in [space -> UNION {GenRange(var) : var \in space}] :
      \A var \in space : h[var] \in GenRange(var) }

\* variant: shuffling left at the training loop's default
ShuffleArg_default(stateful) == TRUE

\* variant: one iteration too many
LoopContinues_inclusive(i, iters) == i <= iters

\* line 108
ShuffleArg(stateful) == ~stateful

\* line 71: for _ in xrange(iters), with i iterations begun
LoopContinues(i, iters) == i < iters

\* lines 71-92: the for header, the draw, create_callbacks and the appended
\* observers.  config.desc.format raises KeyError for a field the draw lacks;
\* hyperparams['lr_modifier'] raises KeyError when the space has no such key,
\* after create_callbacks has made the run's directories
DrawAndWire ==
  /\ pc = "loop"
  /\ LoopContinues(iter, call.iters)
  /\ iter' = iter + 1
  /\ \E hyperparams \in Draws(call.config.space) :
       LET formats == FieldsOf(call.config.desc) \subseteq DOMAIN hyperparams
           hyperparam_desc == IF formats THEN Format(call.config.desc, hyperparams)
                              ELSE <<>>
           callbacks == AppendReset(create_callbacks, call.stateful)
           drawn == [hist EXCEPT !.drawn = @ + 1, !.ids = Append(@, hyperparam_desc),
                                 !.event = <<>>, !.written = <<>>, !.stoppedAt = 0,
                                 !.sinceImproved = 0, !.lowest = Inf]
       IN  /\ obs' = NoObs
           /\ fit' = NoFit
           /\ disk' = IF formats THEN make_dir(disk, RunDir(hyperparam_desc)) ELSE disk
           /\ IF ~formats
              THEN /\ run' = [NoRun EXCEPT !.hyperparams = hyperparams]
                   /\ hist' = [hist EXCEPT !.drawn = @ + 1, !.raised = "KeyError"]
                   /\ pc' = "raised"
              ELSE IF "lr_modifier" \in DOMAIN hyperparams
              THEN /\ run' = [ hyperparams |-> hyperparams,
                               hyperparam_desc |-> hyperparam_desc,
                               callbacks |-> AppendLR(callbacks, lr_modifier(hyperparams)),
                               model |-> FALSE ]
                   /\ hist' = drawn
                   /\ pc' = "build"
              ELSE /\ run' = [ hyperparams |-> hyperparams,
                               hyperparam_desc |-> hyperparam_desc,
                               callbacks |-> callbacks,
                               model |-> FALSE ]
                   /\ hist' = [drawn EXCEPT !.raised = "KeyError"]
                   /\ pc' = "raised"
  /\ UNCHANGED <<args, call>>

\* lines 94-100: model_class(**hyperparams).build()
BuildModel ==
  /\ pc = "build"
  /\ IF FactoryAccepts(run.hyperparams)
     THEN /\ run' = [run EXCEPT !.model = TRUE]
          /\ hist' = [hist EXCEPT !.built = @ + 1]
          /\ pc' = "fit"
     ELSE /\ Raise("TypeError")
          /\ UNCHANGED run
  /\ UNCHANGED <<args, call, iter, fit, obs, disk>>

\* lines 102-109: model.fit is entered (on_train_begin) and its first epoch begins
FitBegin ==
  /\ pc = "fit"
  /\ ~fit.running
  /\ fit' = [NoFit EXCEPT !.running = TRUE, !.shuffle = ShuffleArg(call.stateful),
                          !.inEpoch = call.epochs > 0]
  /\ obs' = NoObs
  /\ hist' = [hist EXCEPT !.started = @ + 1, !.active = @ \cup {iter}]
  /\ UNCHANGED <<pc, args, call, iter, run, disk>>

InCallbacks(name) == \E i \in DOMAIN run.callbacks : run.callbacks[i] = name

\* the number of samples of the training input
Samples(X) == IF "main_input" \in DOMAIN X THEN X.main_input.shape[1] ELSE X.shape[1]

\* one batch is trained (on_batch_end)
Batch ==
  /\ pc = "fit"
  /\ fit.inEpoch
  /\ fit.batch < NumBatches(Samples(call.X_train), call.batch_size)
  /\ fit' = [fit EXCEPT !.batch = @ + 1]
  /\ obs' = IF InCallbacks("ResetStatesCallback")
            THEN [obs EXCEPT !.counter = @ + 1,
                             !.resets = IF ResetDue(obs.counter + 1,
                                                    call.stateful_reset_interval)
                                        THEN Append(@, fit.batch + 1) ELSE @]
            ELSE obs
  /\ UNCHANGED <<pc, args, call, iter, run, disk, hist>>

\* the epoch ends with some validation loss (on_epoch_end of every observer);
\* unless an observer asked to stop or the epochs are used up, the next epoch
\* begins (on_epoch_begin: the reset coordinator restarts its batch count)
EpochEnd ==
  /\ pc = "fit"
  /\ fit.inEpoch
  /\ fit.batch = NumBatches(Samples(call.X_train), call.batch_size)
  /\ \E val_loss \in Losses :
       LET st0 == [ wait |-> obs.wait, best |-> obs.best,
                    epochs_since_last_save |-> obs.epochs_since_last_save,
                    files |-> disk.files, log |-> disk.log,
                    stop_training |-> fit.stop_training,
                    event |-> <<>>, written |-> hist.written,
                    stoppedAt |-> hist.stoppedAt ]
           st == RunCallbacks(run.callbacks, st0, fit.epoch, val_loss)
           improved == val_loss - MinDelta < hist.lowest
           more == ~st.stop_training /\ fit.epoch + 1 < call.epochs
       IN  /\ fit' = [fit EXCEPT !.epoch = @ + 1, !.inEpoch = more,
                                 !.batch = IF more THEN 0 ELSE @,
                                 !.stop_training = st.stop_training]
           /\ obs' = [obs EXCEPT !.wait = st.wait, !.best = st.best,
                                 !.epochs_since_last_save = st.epochs_since_last_save,
                                 !.counter = IF more THEN 0 ELSE @,
                                 !.resets = IF more THEN <<>> ELSE @]
           /\ disk' = [disk EXCEPT !.files = st.files, !.log = st.log]
           /\ hist' = [hist EXCEPT !.event = st.event, !.written = st.written,
                                   !.stoppedAt = st.stoppedAt,
                                   !.lowest = IF improved THEN val_loss ELSE @,
                                   !.sinceImproved = IF improved THEN 0 ELSE @ + 1]
  /\ UNCHANGED <<pc, args, call, iter, run>>

\* model.fit returns: the epochs are used up or an observer asked to stop
FitReturn ==
  /\ pc = "fit"
  /\ fit.running
  /\ ~fit.inEpoch
  /\ fit.stop_training \/ fit.epoch = call.epochs
  /\ fit' = [fit EXCEPT !.running = FALSE]
  /\ hist' = [hist EXCEPT !.active = @ \ {iter}]
  /\ pc' = "loop"
  /\ UNCHANGED <<args, call, iter, run, obs, disk>>

\* training fails at run time (divergence, resource exhaustion mid-epoch)
FitRaises ==
  /\ pc = "fit"
  /\ fit.inEpoch
  /\ Raise("RuntimeError")
  /\ UNCHANGED <<args, call, iter, run, fit, obs, disk>>

\* the for loop is exhausted and hyperparam_search returns
LoopExit ==
  /\ pc = "loop"
  /\ ~LoopContinues(iter, call.iters)
  /\ pc' = "done"
  /\ UNCHANGED <<args, call, iter, run, fit, obs, disk, hist>>

Next ==
  \/ main
  \/ DirectCall
  \/ hyperparam_search_check
  \/ DrawAndWire
  \/ BuildModel
  \/ FitBegin
  \/ Batch
  \/ EpochEnd
  \/ FitReturn
  \/ FitRaises
  \/ LoopExit

Spec == Init /\ [][Next]_vars

\* the search under fair scheduling: the single thread keeps running while it can.
\* Checkpoint period and loss routing do not bear on progress and are fixed.
FairInit == Init /\ args.save_period = 1 /\ args.loss = "naive-weighted"

FairSpec == FairInit /\ [][Next]_vars /\ WF_vars(Next)

(******************************* claims ************************************)
Stopped == pc \in {"done", "raised"}

RunFiles(dir) == {f \in disk.files : f[1] = dir}

\* C1 (as stated): whenever the search has stopped after beginning an iteration,
\* every one of the iters iterations has been attempted, a failure in one
\* iteration notwithstanding.
C1_AllIterationsAttempted ==
  (Stopped /\ iter >= 1) => iter = call.iters

\* C1 (amended): a failure raised in an iteration propagates out of
\* hyperparam_search; the program is then stopped for good and no later
\* iteration is drawn.
C1_FailureEndsSearch ==
  hist.raised # "" => (pc = "raised" /\ hist.drawn = iter /\ ~ENABLED Next)

C1_Witness ==
  /\ pc = "raised"
  /\ hist.raised = "RuntimeError"
  /\ iter < call.iters

\* C2: the observers handed to the training loop are ExtendedLogger,
\* ModelCheckpoint, EarlyStopping, then ResetStatesCallback iff the run is
\* stateful, then the learning-rate observer iff lr_modifier returned one; and an
\* epoch-end event invokes them in exactly that order.
C2_Expected ==
  <<"ExtendedLogger", "ModelCheckpoint", "EarlyStopping">>
    \o (IF call.stateful THEN <<"ResetStatesCallback">> ELSE <<>>)
    \o (IF run.hyperparams["lr_modifier"] = "step_decay"
        THEN <<"LearningRateScheduler">> ELSE <<>>)

C2_ObserverOrder ==
  pc \in {"build", "fit"} =>
    /\ run.callbacks = C2_Expected
    /\ fit.epoch >= 1 => hist.event = C2_Expected

C2_Witness ==
  /\ pc = "fit"
  /\ fit.epoch >= 1
  /\ hist.event = <<"ExtendedLogger", "ModelCheckpoint", "EarlyStopping",
                    "ResetStatesCallback", "LearningRateScheduler">>

\* C3: with patience 7 and min_delta 0, stop is signalled exactly when the
\* validation loss has failed to improve for more than 7 consecutive epochs, that
\* is at the 8th such epoch and never earlier, and once it is signalled no
\* further epoch of the run is executed.
C3_EarlyStop ==
  /\ fit.stop_training <=> hist.sinceImproved > 7
  /\ hist.sinceImproved <= 8
  /\ fit.stop_training =>
       /\ hist.stoppedAt = fit.epoch
       /\ hist.stoppedAt = (fit.epoch - hist.sinceImproved) + 8
       /\ ~fit.inEpoch

C3_Witness ==
  /\ fit.stop_training
  /\ hist.sinceImproved = 8
  /\ fit.epoch < call.epochs
  /\ pc = "loop"

\* C4: within one run the checkpoints are written at exactly the epochs (from 1)
\* that are multiples of save_period, each under a filename no earlier
\* checkpoint of the run has, and every one of them stays on disk.
C4_Checkpoints ==
  LET written == hist.written
  IN  /\ {written[i].epoch : i \in DOMAIN written} =
           {e \in 1..fit.epoch : e % call.save_period = 0}
      /\ \A i, j \in DOMAIN written : i # j => written[i].file # written[j].file
      /\ \A i \in DOMAIN written :
           <<RunDir(run.hyperparam_desc), written[i].file>> \in disk.files

C4_Witness ==
  /\ call.save_period = 3
  /\ fit.epoch = 10
  /\ Len(hist.written) = 3

\* C6: the run is stateful exactly for a top model type containing 'stateful',
\* with reset interval seq_len // subseq_len (5 for 100 and 20) and otherwise -1
\* with no ResetStatesCallback attached; an interval n > 0 resets the recurrent
\* state after batches n, 2n, 3n, ... of each epoch and only then, and an
\* interval <= 0 resets nothing.
C6_Interval ==
  LET n == call.stateful_reset_interval
  IN  IF args.top_model_type = "stateful-lstm"
      THEN /\ call.stateful
           /\ n * args.seq[2] <= args.seq[1]
           /\ args.seq[1] < (n + 1) * args.seq[2]
           /\ args.seq = <<100, 20>> => n = 5
      ELSE ~call.stateful /\ n = -1

\* C6: the interval main computes, the attachment of ResetStatesCallback, and the
\* batches of the current epoch after which the recurrent state has been reset.
C6_StatefulReset ==
  LET n == call.stateful_reset_interval
  IN  /\ pc # "start" => C6_Interval
      /\ pc \in {"build", "fit"} => (InCallbacks("ResetStatesCallback") <=> call.stateful)
      /\ IF call.stateful /\ n > 0
         THEN obs.resets = [i \in 1..(fit.batch \div n) |-> i * n]
         ELSE obs.resets = <<>>

C6_Witness ==
  /\ call.stateful_reset_interval = 5
  /\ obs.resets = <<5, 10>>

C6_WitnessSecondEpoch ==
  /\ call.stateful_reset_interval = 2
  /\ fit.epoch = 1
  /\ fit.batch = 3
  /\ obs.resets = <<2>>

\* C8: exactly for a loss name containing 'homoscedastic' the inputs of both
\* splits are mappings of main_input (the features) and labels_input (the
\* labels) and the label targets are zeros of shape (N,); for any other loss the
\* features and labels are passed on as they are.
C8_Routing ==
  pc # "start" =>
    IF args.loss = "naive-homoscedastic"
    THEN /\ call.X_train = [main_input |-> Features(args.trainN),
                            labels_input |-> Labels(args.trainN, LabelDim)]
         /\ call.y_train = [shape |-> <<args.trainN>>, data |-> [i \in 1..args.trainN |-> 0]]
         /\ call.X_val = [main_input |-> Features(args.valN),
                          labels_input |-> Labels(args.valN, LabelDim)]
         /\ call.y_val = [shape |-> <<args.valN>>, data |-> [i \in 1..args.valN |-> 0]]
    ELSE /\ call.X_train = Features(args.trainN)
         /\ call.y_train = Labels(args.trainN, LabelDim)
         /\ call.X_val = Features(args.valN)
         /\ call.y_val = Labels(args.valN, LabelDim)

C8_Witness ==
  /\ pc = "fit"
  /\ args.loss = "naive-homoscedastic"
  /\ call.y_train.shape = <<args.trainN>>
  /\ call.X_train.labels_input.shape = <<args.trainN, LabelDim>>

\* C9: called without a config or without an output directory, hyperparam_search
\* raises before anything is drawn, any directory or observer is created, any
\* model is built or any epoch is run, whatever iters is; and a draw the model
\* factory rejects fails before that iteration's training begins.
C9_FailFast ==
  /\ (pc # "start" /\ (call.config.isNone \/ call.output_dir = "")) =>
       /\ pc \in {"entry", "raised"}
       /\ iter = 0 /\ hist.drawn = 0 /\ hist.built = 0 /\ hist.started = 0
       /\ run = NoRun /\ fit = NoFit
       /\ disk.dirs = {} /\ disk.files = {}
  /\ hist.raised = "TypeError" =>
       /\ ~fit.running /\ fit.epoch = 0
       /\ hist.started = iter - 1

C9_Witness ==
  /\ pc = "raised"
  /\ hist.raised = "ValueError"
  /\ call.config.isNone
  /\ call.iters = 2

C9_WitnessFactory ==
  /\ pc = "raised"
  /\ hist.raised = "TypeError"

\* C10: a run is trained with shuffling on exactly when it is not stateful.
C10_Shuffle ==
  fit.running => (fit.shuffle <=> args.top_model_type # "stateful-lstm")

C10_Witness ==
  /\ fit.running
  /\ fit.epoch >= 1
  /\ args.top_model_type = "stateful-lstm"
  /\ ~fit.shuffle

\* C5 (safety part): a run never executes more than `epochs` epochs, ends before that only
\* when early stopping has signalled stop, at most one run is executing at any
\* time, a search that returns has started exactly iters runs, and every search
\* eventually stops (returns, or ends with a raised error).
C5_Safety ==
  /\ fit.epoch <= call.epochs
  /\ (pc \in {"loop", "done"} /\ iter >= 1 /\ fit.epoch < call.epochs) => fit.stop_training
  /\ pc # "raised" => hist.active = (IF fit.running THEN {iter} ELSE {})
  /\ hist.started <= iter
  /\ pc = "loop" => hist.started = iter
  /\ pc = "done" => (hist.started = call.iters /\ iter = call.iters)

\* C5: the bounds on every run hold throughout, and the search eventually stops.
C5_Terminates == []C5_Safety /\ <>Stopped

C5_Witness ==
  /\ pc = "done"
  /\ call.iters = 2
  /\ hist.started = 2

C5_WitnessEarly ==
  /\ pc = "done"
  /\ fit.stop_training
  /\ fit.epoch < call.epochs

\* C7: the scenario is a finished 2-iteration search with epochs = 5,
\* save_period = 1, not stateful and without auxiliary loss; its expected
\* outcome is two run directories, each with exactly 5 checkpoint files and a
\* log of exactly 5 records.
C7_Scenario ==
  /\ pc = "done"
  /\ call.iters = 2
  /\ call.epochs = 5
  /\ call.save_period = 1
  /\ ~call.stateful
  /\ args.loss = "naive-weighted"

C7_TwoFullDirectories ==
  /\ Cardinality(disk.dirs) = 2
  /\ \A d \in disk.dirs : Cardinality(RunFiles(d)) = 5 /\ disk.log[d] = 5

\* C7 (as stated): every such search ends with two full run directories.
C7_EndToEnd == C7_Scenario => C7_TwoFullDirectories

\* C7 (amended): the same, provided the two draws format to different run
\* identifiers.
C7_EndToEndDistinctIds ==
  (C7_Scenario /\ hist.ids[1] # hist.ids[2]) => C7_TwoFullDirectories

C7_Witness ==
  /\ C7_Scenario
  /\ hist.ids[1] # hist.ids[2]
  /\ Cardinality(disk.dirs) = 2

====
